---- MODULE Spec2Model ----
(***************************************************************************)
(* Typed-data construction and signing in the GRVT builder examples:       *)
(*   src/authorize.py              builder authorization (EIP-712)         *)
(*   src/grvt_create_order_api.py  order signing (EIP-712)                 *)
(*                                                                         *)
(* Python values are modelled by what the interpreter holds:               *)
(*   int      [neg |-> BOOLEAN, dig |-> big-endian decimal digits]         *)
(*   Decimal  [sign, dig, exp]   value = (-1)^sign * dig * 10^exp          *)
(*   float    [neg, m, e]        value = (-1)^neg * m * 2^e, m a bit string*)
(*   str holding a decimal literal  [ok, neg, ip, fp]  (the characters     *)
(*            before and after the point; ok = FALSE for a non-literal)    *)
(*   dict     a function from key strings to values                        *)
(***************************************************************************)
EXTENDS Integers, Sequences, FiniteSets, TLC

(***************************************************************************)
(* Arbitrary-precision naturals as big-endian digit sequences.             *)
(***************************************************************************)
RECURSIVE Rev(_)
Rev(s) == IF s = <<>> THEN <<>> ELSE Append(Rev(Tail(s)), Head(s))

Zeros(n) == [i \in 1..n |-> 0]

RECURSIVE Strip(_)
Strip(ds) == IF Len(ds) > 1 /\ Head(ds) = 0 THEN Strip(Tail(ds))
             ELSE IF ds = <<>> THEN <<0>> ELSE ds

\* little-endian addition in base b with carry c
RECURSIVE AddLE(_, _, _, _)
AddLE(a, b2, c, base) ==
    IF a = <<>> /\ b2 = <<>> THEN (IF c = 0 THEN <<>> ELSE <<c>>)
    ELSE LET x == IF a = <<>> THEN 0 ELSE Head(a)
             y == IF b2 = <<>> THEN 0 ELSE Head(b2)
             t == x + y + c
         IN <<t % base>> \o AddLE(IF a = <<>> THEN <<>> ELSE Tail(a),
                                  IF b2 = <<>> THEN <<>> ELSE Tail(b2),
                                  t \div base, base)

\* little-endian multiplication by a small natural k, adding carry c
RECURSIVE MulSmallLE(_, _, _, _)
MulSmallLE(a, k, c, base) ==
    IF a = <<>> THEN (IF c = 0 THEN <<>>
                      ELSE <<c % base>> \o MulSmallLE(<<>>, k, c \div base, base))
    ELSE LET t == Head(a) * k + c
         IN <<t % base>> \o MulSmallLE(Tail(a), k, t \div base, base)

RECURSIVE MulLE(_, _, _)
MulLE(a, b2, base) ==
    IF b2 = <<>> THEN <<>>
    ELSE AddLE(MulSmallLE(a, Head(b2), 0, base),
               <<0>> \o MulLE(a, Tail(b2), base), 0, base)

BigAdd(a, b2) == Strip(Rev(AddLE(Rev(a), Rev(b2), 0, 10)))
BigMul(a, b2) == Strip(Rev(MulLE(Rev(a), Rev(b2), 10)))
BigIsZero(a) == \A i \in 1..Len(a) : a[i] = 0

\* -1, 0, 1 as a < b, a = b, a > b (both stripped)
RECURSIVE SeqCmp(_, _)
SeqCmp(a, b2) ==
    IF a = <<>> THEN 0
    ELSE IF Head(a) < Head(b2) THEN -1
    ELSE IF Head(a) > Head(b2) THEN 1
    ELSE SeqCmp(Tail(a), Tail(b2))

BigCmp(a, b2) ==
    LET x == Strip(a)
        y == Strip(b2)
    IN IF Len(x) < Len(y) THEN -1
       ELSE IF Len(x) > Len(y) THEN 1
       ELSE SeqCmp(x, y)

\* the digits of a small natural
RECURSIVE DigitsOf(_)
DigitsOf(n) == IF n < 10 THEN <<n>> ELSE Append(DigitsOf(n \div 10), n % 10)

\* Python int values
PyInt(neg, dig) == [neg |-> neg /\ ~BigIsZero(dig), dig |-> Strip(dig)]
IntOf(n) == PyInt(n < 0, DigitsOf(IF n < 0 THEN -n ELSE n))

\* 10 ** n  (src/grvt_create_order_api.py:283)
Pow10(n) == PyInt(FALSE, <<1>> \o Zeros(n))

(***************************************************************************)
(* str -> Decimal -> int, the exact path of grvt_create_order_api.py.      *)
(***************************************************************************)
\* a str holding a decimal literal: optional sign, digits, optional fraction
Lit(neg, ip, fp) == [ok |-> TRUE, neg |-> neg, ip |-> ip, fp |-> fp]
\* a str that is no number at all (Decimal and float both raise on it)
NotANumber == [ok |-> FALSE, neg |-> FALSE, ip |-> <<>>, fp |-> <<>>]

\* decimal.getcontext().prec, the default context the script runs under
DecimalPrec == 28

\* round a coefficient to DecimalPrec significant digits, ROUND_HALF_EVEN
DecimalFix(sign, dig, exp) ==
    IF Len(dig) <= DecimalPrec THEN [sign |-> sign, dig |-> dig, exp |-> exp]
    ELSE LET drop == Len(dig) - DecimalPrec
             keep == SubSeq(dig, 1, DecimalPrec)
             g    == dig[DecimalPrec + 1]
             rest == \E i \in (DecimalPrec + 2)..Len(dig) : dig[i] # 0
             up   == g > 5 \/ (g = 5 /\ (rest \/ keep[DecimalPrec] % 2 = 1))
             k1   == IF up THEN BigAdd(keep, <<1>>) ELSE keep
         IN IF Len(k1) > DecimalPrec
            THEN [sign |-> sign, dig |-> SubSeq(k1, 1, DecimalPrec), exp |-> exp + drop + 1]
            ELSE [sign |-> sign, dig |-> k1, exp |-> exp + drop]

\* Decimal(str): sign, coefficient digits, exponent
DecimalOfStr(lit) ==
    [sign |-> IF lit.neg THEN 1 ELSE 0, dig |-> Strip(lit.ip \o lit.fp), exp |-> -Len(lit.fp)]

\* Decimal(int)
DecimalOfInt(n) == [sign |-> IF n.neg THEN 1 ELSE 0, dig |-> n.dig, exp |-> 0]

\* Decimal.__mul__ under the default context
DecimalMul(a, b2) ==
    DecimalFix((a.sign + b2.sign) % 2, BigMul(a.dig, b2.dig), a.exp + b2.exp)

\* int(Decimal): truncation toward zero
IntOfDecimal(d) ==
    IF d.exp >= 0 THEN PyInt(d.sign = 1, d.dig \o Zeros(d.exp))
    ELSE IF -d.exp >= Len(d.dig) THEN PyInt(FALSE, <<0>>)
    ELSE PyInt(d.sign = 1, SubSeq(d.dig, 1, Len(d.dig) + d.exp))

\* int(Decimal(s) * Decimal(k))   (src/grvt_create_order_api.py:286,287,302)
ScaleDecimal(lit, k) == IntOfDecimal(DecimalMul(DecimalOfStr(lit), DecimalOfInt(k)))

(***************************************************************************)
(* str -> float -> int, the binary path of authorize.py.  A float is       *)
(* m * 2^e with m a natural of at most 53 bits, held as big-endian limbs   *)
(* in base 2^10; every operation rounds to nearest, ties to even, as       *)
(* IEEE-754 binary64 does.  Literals stay far from the subnormal and       *)
(* overflow ranges.                                                        *)
(***************************************************************************)
MantBits == 53
LimbBits == 10

RECURSIVE Pow2(_)
Pow2(n) == IF n = 0 THEN 1 ELSE 2 * Pow2(n - 1)

Limb == Pow2(LimbBits)

RECURSIVE SmallBitLen(_)
SmallBitLen(n) == IF n = 0 THEN 0 ELSE 1 + SmallBitLen(n \div 2)

BitLen(v) == LimbBits * (Len(v) - 1) + SmallBitLen(Head(v))

RECURSIVE LimbsLEOfDigits(_, _)
LimbsLEOfDigits(dig, acc) ==
    IF dig = <<>> THEN acc
    ELSE LimbsLEOfDigits(Tail(dig), MulSmallLE(acc, 10, Head(dig), Limb))

LimbsOf(dig) == Strip(Rev(LimbsLEOfDigits(dig, <<>>)))

RECURSIVE DigitsLEOfLimbs(_, _)
DigitsLEOfLimbs(v, acc) ==
    IF v = <<>> THEN acc
    ELSE DigitsLEOfLimbs(Tail(v), MulSmallLE(acc, Limb, Head(v), 10))

DigitsOfLimbs(v) == Strip(Rev(DigitsLEOfLimbs(v, <<>>)))

\* long division of big-endian limbs by a small natural
RECURSIVE DivBE(_, _, _, _)
DivBE(v, d, rem, q) ==
    IF v = <<>> THEN [q |-> Strip(q), r |-> rem]
    ELSE LET t == rem * Limb + Head(v)
         IN DivBE(Tail(v), d, t % d, Append(q, t \div d))

\* floor(v / 10^p), with whether anything was cut off
RECURSIVE DivPow10(_, _, _)
DivPow10(v, p, cut) ==
    IF p = 0 THEN [q |-> v, cut |-> cut]
    ELSE LET d == DivBE(v, 10, 0, <<>>)
         IN DivPow10(d.q, p - 1, cut \/ d.r # 0)

\* floor(v / 2^s), with the first bit cut off and whether any later one is set
ShiftRight(v, s) ==
    LET a  == s \div LimbBits
        j  == s % LimbBits
        hi == IF a >= Len(v) THEN <<0>> ELSE SubSeq(v, 1, Len(v) - a)
        lo == IF a >= Len(v) THEN v ELSE SubSeq(v, Len(v) - a + 1, Len(v))
        d  == DivBE(hi, Pow2(j), 0, <<>>)
        loRest(from) == \E i \in from..Len(lo) : lo[i] # 0
    IN IF j > 0
       THEN [q |-> d.q, guard |-> d.r >= Pow2(j - 1),
             rest |-> d.r % Pow2(j - 1) # 0 \/ loRest(1)]
       ELSE IF a > 0 /\ a <= Len(v)
       THEN [q |-> d.q, guard |-> lo[1] >= Limb \div 2,
             rest |-> lo[1] % (Limb \div 2) # 0 \/ loRest(2)]
       ELSE [q |-> d.q, guard |-> FALSE, rest |-> loRest(1)]

\* round the exact value v * 2^e (plus a nonzero tail when sticky) to binary64
RoundFloat(neg, v0, sticky, e) ==
    LET v == Strip(v0)
        s == BitLen(v) - MantBits
    IN IF s <= 0 THEN [neg |-> neg, m |-> v, e |-> e]
       ELSE LET sh == ShiftRight(v, s)
                up == sh.guard /\ (sh.rest \/ sticky \/ sh.q[Len(sh.q)] % 2 = 1)
                m1 == IF up THEN Strip(Rev(AddLE(Rev(sh.q), <<1>>, 0, Limb))) ELSE sh.q
            IN IF BitLen(m1) > MantBits
               THEN [neg |-> neg, m |-> DivBE(m1, 2, 0, <<>>).q, e |-> e + s + 1]
               ELSE [neg |-> neg, m |-> m1, e |-> e + s]

\* float(str): the binary64 nearest to the literal
FloatOfStr(lit) ==
    LET p == Len(lit.fp)
        k == 7 + p
        d == DivPow10(LimbsOf(Strip(lit.ip \o lit.fp)) \o Zeros(k), p, FALSE)
    IN RoundFloat(lit.neg, d.q, d.cut, -(LimbBits * k))

\* float(int), as the interpreter converts an int operand of a float product
FloatOfInt(n) == RoundFloat(n.neg, LimbsOf(n.dig), FALSE, 0)

\* float.__mul__
FloatMul(a, b2) ==
    RoundFloat(a.neg # b2.neg, Rev(MulLE(Rev(a.m), Rev(b2.m), Limb)), FALSE, a.e + b2.e)

\* int(float): truncation toward zero
IntOfFloat(f) ==
    IF f.e >= 0
    THEN PyInt(f.neg, DigitsOfLimbs(
             Rev(MulSmallLE(Rev(f.m \o Zeros(f.e \div LimbBits)), Pow2(f.e % LimbBits), 0, Limb))))
    ELSE PyInt(f.neg, DigitsOfLimbs(ShiftRight(f.m, -f.e).q))

\* int(float(s) * k)   (src/authorize.py:211,212)
ScaleFloat(lit, k) == IntOfFloat(FloatMul(FloatOfStr(lit), FloatOfInt(k)))

(***************************************************************************)
(* Module-level tables of the two scripts.                                 *)
(***************************************************************************)
EnvNames == {"dev", "staging", "testnet", "prod"}

\* ENVS[name].chain_id   (src/authorize.py:68-73)
ENVS == [dev |-> 327, staging |-> 327, testnet |-> 326, prod |-> 325]

\* CHAIN_IDS[GrvtEnv(name)]   (src/grvt_create_order_api.py:66-71)
CHAIN_IDS == [dev |-> 327, staging |-> 327, testnet |-> 326, prod |-> 325]

\* the values of the TimeInForce enum
TimeInForce == {"GOOD_TILL_TIME", "ALL_OR_NONE", "IMMEDIATE_OR_CANCEL", "FILL_OR_KILL"}

\* SignTimeInForce[member].value
SignTimeInForce ==
    [GOOD_TILL_TIME |-> 1, ALL_OR_NONE |-> 2, IMMEDIATE_OR_CANCEL |-> 3, FILL_OR_KILL |-> 4]

\* TIME_IN_FORCE_TO_SIGN_TIME_IN_FORCE: member -> member of SignTimeInForce
TIME_IN_FORCE_TO_SIGN_TIME_IN_FORCE ==
    [GOOD_TILL_TIME |-> "GOOD_TILL_TIME", ALL_OR_NONE |-> "ALL_OR_NONE",
     IMMEDIATE_OR_CANCEL |-> "IMMEDIATE_OR_CANCEL", FILL_OR_KILL |-> "FILL_OR_KILL"]

PRICE_MULTIPLIER == 1000000000

F(name, type) == [name |-> name, type |-> type]

\* the order schema with nonce and expiration in each other's place
EIP712_ORDER_MESSAGE_TYPE_reordered ==
    [OrderWithBuilderFee |->
        << F("subAccountID", "uint64"), F("isMarket", "bool"), F("timeInForce", "uint8"),
           F("postOnly", "bool"), F("reduceOnly", "bool"), F("legs", "OrderLeg[]"),
           F("builder", "address"), F("builderFee", "uint32"), F("expiration", "int64"),
           F("nonce", "uint32") >>,
     OrderLeg |->
        << F("assetID", "uint256"), F("contractSize", "uint64"),
           F("limitPrice", "uint64"), F("isBuyingContract", "bool") >>]
EIP712_ORDER_MESSAGE_TYPE ==
    [OrderWithBuilderFee |->
        << F("subAccountID", "uint64"), F("isMarket", "bool"), F("timeInForce", "uint8"),
           F("postOnly", "bool"), F("reduceOnly", "bool"), F("legs", "OrderLeg[]"),
           F("builder", "address"), F("builderFee", "uint32"), F("nonce", "uint32"),
           F("expiration", "int64") >>,
     OrderLeg |->
        << F("assetID", "uint256"), F("contractSize", "uint64"),
           F("limitPrice", "uint64"), F("isBuyingContract", "bool") >>]

\* the "types" entry of the payload build_eip712_payload returns
AuthTypes ==
    [EIP712Domain |->
        << F("name", "string"), F("version", "string"), F("chainId", "uint256") >>,
     AddAccountSignerWithBuilder |->
        << F("accountID", "address"), F("signer", "address"), F("permissions", "string"),
           F("builderAccountID", "address"), F("maxFutureFeeRate", "uint32"),
           F("maxSpotFeeRate", "uint32"), F("nonce", "uint32"),
           F("expiration", "int64") >>]

(***************************************************************************)
(* Hex strings, keys and addresses.  A hex str is its hex body (lower      *)
(* case), whether it carries the 0x prefix, whether it has upper-case      *)
(* letters (an EIP-55 checksum address does) and whether white space       *)
(* surrounds it.                                                           *)
(***************************************************************************)
HexStr(body, pre, mixed, ws) == [body |-> body, pre |-> pre, mixed |-> mixed, ws |-> ws]
EmptyStr == HexStr("", FALSE, FALSE, FALSE)

\* authorize.py: strip, prefix with 0x when missing, lower-case
AuthEnsure0x(s) == HexStr(s.body, TRUE, FALSE, FALSE)

\* the private keys of the model and the address each one controls
KeyAddress == [k1 |-> "a1", k2 |-> "a2"]
ValidKeys == DOMAIN KeyAddress
AddressBodies == {"a1", "a2", "b1"}

\* Account.from_key(key): rejects what is no 32-byte non-zero scalar below the
\* curve order; accepts the key with or without the 0x prefix
KeyOK(key) == key.body \in ValidKeys /\ ~key.ws

\* Account.from_key(key).address, an EIP-55 checksum address
AccountAddress(key) == HexStr(KeyAddress[key.body], TRUE, TRUE, FALSE)

\* "0x" + n.to_bytes(32, "big").hex()
Hex32(n) == [hex32 |-> n]

\* account.sign_message(signable): the r and s of the signature of digest under
\* the key; v is 27 or 28, fixed by the curve point but not by anything modelled
SignMessage(key, digest, v) ==
    [r |-> [part |-> "r", by |-> KeyAddress[key.body], over |-> digest],
     s |-> [part |-> "s", by |-> KeyAddress[key.body], over |-> digest],
     v |-> v]
RecoveryIds == {27, 28}

\* ecrecover: the address whose key produced (r, s, v) over digest, when it did
Recover(digest, r, s, v) ==
    IF r.part = "r" /\ s.part = "s" /\ r.by = s.by /\ r.over = digest /\ s.over = digest
       /\ v \in RecoveryIds
    THEN r.by ELSE "nobody"

(***************************************************************************)
(* encode_typed_data: the digest input.  Values are encoded field by       *)
(* field in the order of the type schema; a str given for an int or uint   *)
(* field is read as its number; every value must fit its declared type.    *)
(***************************************************************************)
TwoPow8   == <<2,5,6>>
TwoPow32  == <<4,2,9,4,9,6,7,2,9,6>>
TwoPow63  == <<9,2,2,3,3,7,2,0,3,6,8,5,4,7,7,5,8,0,8>>
TwoPow64  == <<1,8,4,4,6,7,4,4,0,7,3,7,0,9,5,5,1,6,1,6>>

UintLimit(type) ==
    CASE type = "uint8" -> TwoPow8
      [] type = "uint32" -> TwoPow32
      [] type = "uint64" -> TwoPow64
      [] OTHER -> Pow10(78).dig        \* uint256: above every value of the model

IsUintType(type) == type \in {"uint8", "uint32", "uint64", "uint256"}
IsAddress(s) == s.body \in AddressBodies /\ ~s.ws

RECURSIVE FieldOK(_, _, _)
StructOK(types, name, value) ==
    \A i \in 1..Len(types[name]) :
        /\ types[name][i].name \in DOMAIN value
        /\ FieldOK(types, types[name][i].type, value[types[name][i].name])
FieldOK(types, type, v) ==
    CASE type = "OrderLeg[]" -> \A j \in 1..Len(v) : StructOK(types, "OrderLeg", v[j])
      [] IsUintType(type) -> ~v.neg /\ BigCmp(v.dig, UintLimit(type)) < 0
      [] type = "int64" -> IF v.neg THEN BigCmp(v.dig, TwoPow63) <= 0
                           ELSE BigCmp(v.dig, TwoPow63) < 0
      [] type = "address" -> IsAddress(v)
      [] OTHER -> TRUE

RECURSIVE EncodeField(_, _, _)
EncodeStruct(types, name, value) ==
    [i \in 1..Len(types[name]) |->
        EncodeField(types, types[name][i].type, value[types[name][i].name])]
EncodeField(types, type, v) ==
    CASE type = "OrderLeg[]" -> [j \in 1..Len(v) |-> EncodeStruct(types, "OrderLeg", v[j])]
      [] IsUintType(type) \/ type = "int64" -> [neg |-> v.neg, dig |-> v.dig]
      [] type = "address" -> v.body
      [] OTHER -> v

\* the signable message: domain separator input, type schema and encoded message
EncodeTypedData(domain, types, primary, message) ==
    [domain |-> domain, primary |-> primary, types |-> types,
     data |-> EncodeStruct(types, primary, message)]

EncodeOK(types, primary, message) == StructOK(types, primary, message)

(***************************************************************************)
(* State.                                                                  *)
(***************************************************************************)
VARIABLES
    script,        \* which script runs: "order" or "authorize"
    pc,            \* position of the run
    now,           \* time.time(), in whole seconds
    env,           \* --env
    private_key,   \* --private-key / --user-privkey
    order_data,    \* the loaded order file: [wrapped, order]
    instruments,   \* the instrument directory handed to sign_order
    key,           \* sign_order's local private_key after the prefix is cut
    legs,          \* build_order_message_data's local legs list
    message_data,  \* the message handed to encode_typed_data
    signable,      \* the encoded message that was signed
    signature,     \* sign_order's local signature dict / authorize's (v, r, s)
    result,        \* what sign_order returned
    err,           \* the exception that ended the run, "none" while there is none
    args,          \* authorize_builder's keyword arguments
    loc,           \* authorize_builder's locals
    typed,         \* build_eip712_payload's return value
    body           \* the JSON body posted to /auth/builder/authorize

vars == << script, pc, now, env, private_key, order_data, instruments, key, legs,
           message_data, signable, signature, result, err, args, loc, typed, body >>

orderVars == << order_data, instruments, key, legs, message_data, result >>
authVars == << args, loc, typed, body >>

None == [none |-> TRUE]

(***************************************************************************)
(* Inputs.                                                                 *)
(***************************************************************************)
MaxLegs == 2

\* the clock reading of the run
Clock == 1762000000
Day == 24 * 3600

\* nanoseconds of a whole number of seconds, as digits
NsDigits(sec) == DigitsOf(sec) \o Zeros(9)

Instruments ==
    [BTC_USDT_Perp |-> [instrument_hash |-> IntOf(197121), base_decimals |-> 9],
     ETH_USDT_Perp |-> [instrument_hash |-> IntOf(197377), base_decimals |-> 2]]

Leg(inst, size, price, buy) ==
    [instrument |-> inst, size |-> size, limit_price |-> price, is_buying_asset |-> buy]

LegPool ==
    { Leg("BTC_USDT_Perp", Lit(FALSE, <<1>>, <<>>), Lit(FALSE, <<2>>, <<5>>), TRUE),
      Leg("BTC_USDT_Perp", Lit(FALSE, <<1>>, <<0>>), Lit(FALSE, <<2>>, <<5>>), TRUE),
      Leg("ETH_USDT_Perp", Lit(FALSE, <<0>>, <<0,1,9>>),
                           Lit(FALSE, <<0>>, <<0,0,0,0,0,0,0,0,1,9>>), FALSE),
      Leg("XRP_USDT_Perp", Lit(FALSE, <<1>>, <<>>), Lit(FALSE, <<2>>, <<5>>), TRUE),
      Leg("BTC_USDT_Perp", NotANumber, Lit(FALSE, <<2>>, <<5>>), FALSE) }

LegLists == UNION { [1..n -> LegPool] : n \in 1..MaxLegs }

\* the signature record of an order file before signing
FileSignature(expiration, nonce) ==
    [signer |-> EmptyStr, r |-> EmptyStr, s |-> EmptyStr, v |-> 0,
     expiration |-> expiration, nonce |-> nonce]

StrNum(dig) == [py |-> "str", neg |-> FALSE, dig |-> dig]
IntNum(dig) == [py |-> "int", neg |-> FALSE, dig |-> dig]

BuilderAddress == HexStr("b1", TRUE, TRUE, FALSE)

BaseOrder ==
    [sub_account_id |-> Lit(FALSE, <<8,2,8,9,8,4,9,6,6,7,7,7,2,4,6,8>>, <<>>),
     is_market |-> FALSE, time_in_force |-> "GOOD_TILL_TIME",
     post_only |-> FALSE, reduce_only |-> FALSE,
     builder |-> BuilderAddress, builder_fee |-> Lit(FALSE, <<0>>, <<0,0,1>>),
     signature |-> FileSignature(StrNum(NsDigits(Clock + Day)), IntOf(7))]

Without(f, k) == [x \in DOMAIN f \ {k} |-> f[x]]

\* the order-level fields of the order files of the model: the base order and
\* the orders that differ from it in one field
Headers ==
    { BaseOrder }
    \cup { [BaseOrder EXCEPT !.time_in_force = t] :
             t \in {"ALL_OR_NONE", "IMMEDIATE_OR_CANCEL", "FILL_OR_KILL", "GOOD_TILL_DATE"} }
    \cup { [BaseOrder EXCEPT !.builder_fee = f] :
             f \in {Lit(FALSE, <<0>>, <<0,0,0,1,9>>), NotANumber} }
    \cup { [BaseOrder EXCEPT !.signature.expiration = e] :
             e \in {StrNum(NsDigits(Clock - 3600)), StrNum(NsDigits(Clock + 31 * Day)),
                    IntNum(NsDigits(Clock + Day))} }
    \cup { [BaseOrder EXCEPT !.is_market = TRUE, !.reduce_only = TRUE] }
    \cup { Without(BaseOrder, k) :
             k \in {"time_in_force", "builder_fee", "builder", "post_only", "signature"} }

\* --private-key: a good key with and without the prefix, and a string that is no key
OrderKeys == { HexStr("k1", TRUE, FALSE, FALSE), HexStr("k2", FALSE, FALSE, FALSE),
               HexStr("zz", TRUE, FALSE, FALSE) }

\* --expiration-hours
ExpirationHours == {0, 24, 721}

\* values secrets.randbelow(2**32) can return
Nonces == { IntOf(0), PyInt(FALSE, <<4,2,9,4,9,6,7,2,9,5>>) }

(***************************************************************************)
(* grvt_create_order_api.py: building the order message.                   *)
(***************************************************************************)
\* dict.get(k, default)
Get(d, k, default) == IF k \in DOMAIN d THEN d[k] ELSE default

\* the "order" in order_data test: wrapped and direct order files
OrderOf(od) == IF "order" \in DOMAIN od THEN od.order ELSE od

Ok(v) == [err |-> "none", val |-> v]
Raise(e) == [err |-> e, val |-> None]

\* int(str): digits only
IntOfStr(lit) == PyInt(lit.neg, lit.ip)
IntOfStrOK(lit) == lit.ok /\ lit.fp = <<>>

\* domain data that carries the testnet chain id whatever the environment
get_eip712_domain_data_testnet(e) == [name |-> "GRVT Exchange", version |-> "0", chainId |-> CHAIN_IDS["testnet"]]

\* get_eip712_domain_data(env)
get_eip712_domain_data(e) == [name |-> "GRVT Exchange", version |-> "0", chainId |-> CHAIN_IDS[e]]

\* a size multiplier that is the price multiplier, whatever the instrument
SizeMultiplierGlobal(dir, leg) == IntOf(PRICE_MULTIPLIER)
\* size_multiplier = 10 ** instrument["base_decimals"]
SizeMultiplier(dir, leg) == Pow10(dir[leg.instrument].base_decimals)

\* one pass of the loop with a default directory entry for an unknown instrument
BuildLegDefaultInstrument(dir, leg) ==
    LET inst == IF leg.instrument \in DOMAIN dir THEN dir[leg.instrument]
                ELSE dir["BTC_USDT_Perp"]
    IN IF ~leg.size.ok \/ ~leg.limit_price.ok THEN Raise("InvalidDecimal")
       ELSE Ok([assetID |-> inst.instrument_hash,
                contractSize |-> ScaleDecimal(leg.size, Pow10(inst.base_decimals)),
                limitPrice |-> ScaleDecimal(leg.limit_price, IntOf(PRICE_MULTIPLIER)),
                isBuyingContract |-> leg.is_buying_asset])

BuildLeg(dir, leg) ==
    IF leg.instrument \notin DOMAIN dir THEN Raise("UnknownInstrument")
    ELSE IF ~leg.size.ok \/ ~leg.limit_price.ok THEN Raise("InvalidDecimal")
    ELSE Ok([assetID |-> dir[leg.instrument].instrument_hash,
             contractSize |-> ScaleDecimal(leg.size, SizeMultiplier(dir, leg)),
             limitPrice |-> ScaleDecimal(leg.limit_price, IntOf(PRICE_MULTIPLIER)),
             isBuyingContract |-> leg.is_buying_asset])

\* a list that grows at the front
AppendLegFront(built, leg) == <<leg>> \o built

\* legs.append(...)
AppendLeg(built, leg) == Append(built, leg)

\* the statements after the loop: time in force, builder fee, the message dict
BuildHeader(order, built) ==
    LET tif == Get(order, "time_in_force", "GOOD_TILL_TIME")
        fee == Get(order, "builder_fee", Lit(FALSE, <<0>>, <<0,0,1>>))
    IN IF tif \notin TimeInForce THEN Raise("UnknownTimeInForce")
       ELSE IF ~fee.ok THEN Raise("InvalidDecimal")
       ELSE IF "sub_account_id" \notin DOMAIN order THEN Raise("MissingField")
       ELSE IF ~IntOfStrOK(order.sub_account_id) THEN Raise("InvalidInteger")
       ELSE IF "signature" \notin DOMAIN order THEN Raise("MissingField")
       ELSE Ok([subAccountID |-> IntOfStr(order.sub_account_id),
                isMarket |-> Get(order, "is_market", FALSE),
                timeInForce |-> IntOf(SignTimeInForce[TIME_IN_FORCE_TO_SIGN_TIME_IN_FORCE[tif]]),
                postOnly |-> Get(order, "post_only", FALSE),
                reduceOnly |-> Get(order, "reduce_only", FALSE),
                legs |-> built,
                builder |-> Get(order, "builder", EmptyStr),
                builderFee |-> ScaleDecimal(fee, IntOf(10000)),
                nonce |-> order.signature.nonce,
                expiration |-> order.signature.expiration])

\* the whole of build_order_message_data, for a given order file and directory
RECURSIVE BuildLegs(_, _, _)
BuildLegs(dir, todo, built) ==
    IF todo = <<>> THEN Ok(built)
    ELSE LET r == BuildLeg(dir, Head(todo))
         IN IF r.err # "none" THEN r
            ELSE BuildLegs(dir, Tail(todo), AppendLeg(built, r.val))

build_order_message_data(od, dir) ==
    LET r == BuildLegs(dir, OrderOf(od).legs, <<>>)
    IN IF r.err # "none" THEN r ELSE BuildHeader(OrderOf(od), r.val)

(***************************************************************************)
(* grvt_create_order_api.py: main, update_order_signature_fields and       *)
(* sign_order, statement group by statement group.                         *)
(***************************************************************************)
Fail(e) == /\ pc' = "failed"
           /\ err' = e

\* int((time.time() + hours * 3600) * 1_000_000_000)
ExpirationNs(t, seconds) ==
    IntOfFloat(FloatMul(FloatOfInt(IntOf(t + seconds)), FloatOfInt(IntOf(1000000000))))

\* str(int)
StrOfInt(n) == [py |-> "str", neg |-> n.neg, dig |-> n.dig]

\* the two assignments into the caller's order file
SetSignatureFields(od, expiration, nonce) ==
    IF "order" \in DOMAIN od
    THEN [od EXCEPT !.order.signature.expiration = expiration, !.order.signature.nonce = nonce]
    ELSE [od EXCEPT !.signature.expiration = expiration, !.signature.nonce = nonce]

\* main step 4: update_order_signature_fields(order_data, args.expiration_hours)
UpdateOrderSignatureFields(hours, nonce) ==
    /\ script = "order"
    /\ pc = "loaded"
    /\ IF "signature" \notin DOMAIN OrderOf(order_data)
       THEN /\ Fail("MissingField")
            /\ UNCHANGED order_data
       ELSE /\ order_data' = SetSignatureFields(order_data,
                                 StrOfInt(ExpirationNs(now, hours * 3600)), nonce)
            /\ pc' = "updated"
            /\ UNCHANGED err
    /\ UNCHANGED << script, now, env, private_key, instruments, key, legs, message_data,
                    signable, signature, result, authVars >>

\* sign_order, lines 336-338: cut the 0x prefix of the key
SignOrderBegin ==
    /\ script = "order"
    /\ pc \in {"loaded", "updated"}
    /\ key' = [private_key EXCEPT !.pre = FALSE]
    /\ legs' = <<>>
    /\ pc' = "legs"
    /\ UNCHANGED << script, now, env, private_key, order_data, instruments, message_data,
                    signable, signature, result, err, authVars >>

\* build_order_message_data, lines 277-294: the next leg
ResolveLeg ==
    /\ pc = "legs"
    /\ Len(legs) < Len(OrderOf(order_data).legs)
    /\ LET r == BuildLeg(instruments, OrderOf(order_data).legs[Len(legs) + 1])
       IN IF r.err # "none"
          THEN /\ Fail(r.err)
               /\ UNCHANGED legs
          ELSE /\ legs' = AppendLeg(legs, r.val)
               /\ UNCHANGED << pc, err >>
    /\ UNCHANGED << script, now, env, private_key, order_data, instruments, key,
                    message_data, signable, signature, result, authVars >>

\* build_order_message_data, lines 296-315: the message
BuildMessage ==
    /\ pc = "legs"
    /\ Len(legs) = Len(OrderOf(order_data).legs)
    /\ LET r == BuildHeader(OrderOf(order_data), legs)
       IN IF r.err # "none"
          THEN /\ Fail(r.err)
               /\ UNCHANGED message_data
          ELSE /\ message_data' = r.val
               /\ pc' = "built"
               /\ UNCHANGED err
    /\ UNCHANGED << script, now, env, private_key, order_data, instruments, key, legs,
                    signable, signature, result, authVars >>

\* the signature dict of lines 354-359
SignatureDict(k, signed) ==
    [r |-> Hex32(signed.r), s |-> Hex32(signed.s), v |-> signed.v,
     signer |-> AccountAddress(k)]

\* sign_order, lines 344-359: encode, load the key, sign
SignOrderSign ==
    /\ pc = "built"
    /\ IF ~EncodeOK(EIP712_ORDER_MESSAGE_TYPE, "OrderWithBuilderFee", message_data)
       THEN /\ Fail("EncodingError")
            /\ UNCHANGED << signable, signature >>
       ELSE IF ~KeyOK(key)
       THEN /\ Fail("InvalidKey")
            /\ UNCHANGED << signable, signature >>
       ELSE \E v \in RecoveryIds :
            /\ signable' = EncodeTypedData(get_eip712_domain_data(env),
                               EIP712_ORDER_MESSAGE_TYPE, "OrderWithBuilderFee", message_data)
            /\ signature' = SignatureDict(key, SignMessage(key, signable', v))
            /\ pc' = "signed"
            /\ UNCHANGED err
    /\ UNCHANGED << script, now, env, private_key, order_data, instruments, key, legs,
                    message_data, result, authVars >>

\* a returned order whose nonce is reset instead of carried over
SignedOrderResetNonce(order, sig) ==
    [order EXCEPT !.signature =
        [r |-> sig.r, s |-> sig.s, v |-> sig.v,
         expiration |-> order.signature.expiration,
         nonce |-> IntOf(0),
         signer |-> sig.signer]]

\* the order sign_order returns: a copy of the order with a new signature record
SignedOrder(order, sig) ==
    [order EXCEPT !.signature =
        [r |-> sig.r, s |-> sig.s, v |-> sig.v,
         expiration |-> order.signature.expiration,
         nonce |-> order.signature.nonce,
         signer |-> sig.signer]]

\* a sign_order that also returns the order as soon as the message is built
ReturnOrderEarly ==
    /\ pc \in {"built", "signed"}
    /\ result' = IF pc = "signed" THEN [order |-> SignedOrder(OrderOf(order_data), signature)]
                 ELSE [order |-> OrderOf(order_data)]
    /\ pc' = "returned"
    /\ UNCHANGED << script, now, env, private_key, order_data, instruments, key, legs,
                    message_data, signable, signature, err, authVars >>

\* sign_order, lines 361-377
ReturnOrder ==
    /\ pc = "signed"
    /\ result' = [order |-> SignedOrder(OrderOf(order_data), signature)]
    /\ pc' = "returned"
    /\ UNCHANGED << script, now, env, private_key, order_data, instruments, key, legs,
                    message_data, signable, signature, err, authVars >>

\* an order file as given (direct) or under an "order" key (wrapped)
WrapChoices(o) == { o, [order |-> o] }
OrderFile(h, l) == ("legs" :> l) @@ h

BaseLegs == << Leg("BTC_USDT_Perp", Lit(FALSE, <<1>>, <<>>), Lit(FALSE, <<2>>, <<5>>), TRUE) >>

\* legs whose scaled size or price does not fit uint64: a size of 18446744074 on
\* an instrument of 9 base decimals, a price of 18446744074, a negative size
WideLegs ==
    { Leg("BTC_USDT_Perp", Lit(FALSE, <<1,8,4,4,6,7,4,4,0,7,4>>, <<>>), Lit(FALSE, <<2>>, <<5>>), TRUE),
      Leg("BTC_USDT_Perp", Lit(FALSE, <<1>>, <<>>), Lit(FALSE, <<1,8,4,4,6,7,4,4,0,7,4>>, <<>>), TRUE),
      Leg("ETH_USDT_Perp", Lit(TRUE, <<1>>, <<>>), Lit(FALSE, <<2>>, <<5>>), FALSE) }

\* order files with such a leg, first or second, and an order file whose builder
\* fee of 429497 does not fit uint32 once scaled
WideOrders ==
    { OrderFile(BaseOrder, l) : l \in { <<w>> : w \in WideLegs } \cup { BaseLegs \o <<w>> : w \in WideLegs } }
    \cup { OrderFile([BaseOrder EXCEPT !.builder_fee = Lit(FALSE, <<4,2,9,4,9,7>>, <<>>)], BaseLegs) }

\* the runs of the order script: every wrapped order file under one key and
\* environment, one order file, wrapped and direct, under every key and
\* environment, and the order files of out-of-range numbers
OrderInputs ==
    { [od |-> [order |-> OrderFile(h, l)], key |-> HexStr("k1", TRUE, FALSE, FALSE),
       env |-> "testnet"] : h \in Headers, l \in LegLists }
    \cup
    { [od |-> od, key |-> k, env |-> e] :
        od \in WrapChoices(OrderFile(BaseOrder, BaseLegs)), k \in OrderKeys, e \in EnvNames }
    \cup
    { [od |-> [order |-> o], key |-> HexStr("k1", TRUE, FALSE, FALSE), env |-> "testnet"] :
        o \in WideOrders }

(***************************************************************************)
(* authorize.py: build_eip712_payload, sign_eip712, authorize_builder.     *)
(***************************************************************************)
\* build_eip712_payload with the two fee rates bound to each other's field
build_eip712_payload_swapped(main_account_id, builder_account_id, signer_address, permissions, max_future_fee_rate_uint32, max_spot_fee_rate_uint32, nonce_uint32, expiration_unix_ns, domain_chain_id) ==
    [domain |-> [chainId |-> domain_chain_id, name |-> "GRVT Exchange", version |-> "0"],
     message |-> [accountID |-> main_account_id,
                  signer |-> signer_address,
                  permissions |-> permissions,
                  builderAccountID |-> builder_account_id,
                  maxFutureFeeRate |-> max_spot_fee_rate_uint32,
                  maxSpotFeeRate |-> max_future_fee_rate_uint32,
                  nonce |-> nonce_uint32,
                  expiration |-> expiration_unix_ns],
     primaryType |-> "AddAccountSignerWithBuilder",
     types |-> AuthTypes]
build_eip712_payload(main_account_id, builder_account_id, signer_address, permissions, max_future_fee_rate_uint32, max_spot_fee_rate_uint32, nonce_uint32, expiration_unix_ns, domain_chain_id) ==
    [domain |-> [chainId |-> domain_chain_id, name |-> "GRVT Exchange", version |-> "0"],
     message |-> [accountID |-> main_account_id,
                  signer |-> signer_address,
                  permissions |-> permissions,
                  builderAccountID |-> builder_account_id,
                  maxFutureFeeRate |-> max_future_fee_rate_uint32,
                  maxSpotFeeRate |-> max_spot_fee_rate_uint32,
                  nonce |-> nonce_uint32,
                  expiration |-> expiration_unix_ns],
     primaryType |-> "AddAccountSignerWithBuilder",
     types |-> AuthTypes]

\* _hex32(n)
AuthHex32(n) == Hex32(n)

\* sign_eip712(user_privkey, typed_data): (v, r, s), or the exception
sign_eip712(user_privkey, typed_data, v) ==
    LET k == AuthEnsure0x(user_privkey)
    IN IF ~KeyOK(k) THEN Raise("InvalidKey")
       ELSE IF ~EncodeOK(typed_data.types, typed_data.primaryType, typed_data.message)
       THEN Raise("EncodingError")
       ELSE LET msg == EncodeTypedData(typed_data.domain, typed_data.types,
                                       typed_data.primaryType, typed_data.message)
                signed == SignMessage(k, msg, v)
            IN Ok([v |-> signed.v, r |-> AuthHex32(signed.r), s |-> AuthHex32(signed.s),
                   msg |-> msg])

\* authorize_builder, lines 202-215: signer address, fee rates, nonce, expiration
AuthorizePrepare ==
    /\ script = "authorize"
    /\ pc = "a_start"
    /\ IF ~KeyOK(AuthEnsure0x(args.builder_api_key_signer_privkey))
       THEN /\ Fail("InvalidKey")
            /\ UNCHANGED loc
       ELSE IF ~args.max_futures_fee_rate.ok \/ ~args.max_spot_fee_rate.ok
       THEN /\ Fail("InvalidFloat")
            /\ UNCHANGED loc
       ELSE \E n \in Nonces :
            /\ loc' = [signer_addr |-> AccountAddress(AuthEnsure0x(args.builder_api_key_signer_privkey)),
                       mf_uint32 |-> ScaleFloat(args.max_futures_fee_rate, IntOf(10000)),
                       ms_uint32 |-> ScaleFloat(args.max_spot_fee_rate, IntOf(10000)),
                       nonce |-> n,
                       expiration_ns |-> ExpirationNs(now, 7 * 24 * 3600)]
            /\ pc' = "a_prepared"
            /\ UNCHANGED err
    /\ UNCHANGED << script, now, env, private_key, orderVars, signable, signature, args,
                    typed, body >>

\* authorize_builder, lines 217-227
AuthorizeBuild ==
    /\ pc = "a_prepared"
    /\ typed' = build_eip712_payload(AuthEnsure0x(args.main_account_id),
                                     AuthEnsure0x(args.builder_account_id),
                                     AuthEnsure0x(loc.signer_addr),
                                     args.permissions,
                                     loc.mf_uint32, loc.ms_uint32,
                                     loc.nonce, loc.expiration_ns,
                                     ENVS[env])
    /\ pc' = "a_typed"
    /\ UNCHANGED << script, now, env, private_key, orderVars, signable, signature, err,
                    args, loc, body >>

\* authorize_builder, line 230
AuthorizeSign ==
    /\ pc = "a_typed"
    /\ \E v \in RecoveryIds :
        LET r == sign_eip712(AuthEnsure0x(private_key), typed, v)
        IN IF r.err # "none"
           THEN /\ Fail(r.err)
                /\ UNCHANGED << signable, signature >>
           ELSE /\ signable' = r.val.msg
                /\ signature' = [v |-> r.val.v, r |-> r.val.r, s |-> r.val.s]
                /\ pc' = "a_signed"
                /\ UNCHANGED err
    /\ UNCHANGED << script, now, env, private_key, orderVars, args, loc, typed >>
    /\ UNCHANGED body

\* a request body that carries the account ids as the caller typed them
AuthorizeBodyRawIds(a, l, sig, chain_id) ==
    [main_account_id |-> a.main_account_id,
     builder_account_id |-> a.builder_account_id,
     max_futures_fee_rate |-> a.max_futures_fee_rate,
     max_spot_fee_rate |-> a.max_spot_fee_rate,
     signature |-> [signer |-> AuthEnsure0x(a.main_account_id),
                    r |-> sig.r, s |-> sig.s, v |-> sig.v,
                    expiration |-> StrOfInt(l.expiration_ns),
                    nonce |-> l.nonce,
                    chain_id |-> DigitsOf(chain_id)],
     builder_api_key_label |-> a.builder_api_key_label,
     builder_api_key_signer |-> AuthEnsure0x(l.signer_addr),
     builder_api_key_permissions |-> a.permissions]

\* the request body of lines 234-251
AuthorizeBody(a, l, sig, chain_id) ==
    [main_account_id |-> AuthEnsure0x(a.main_account_id),
     builder_account_id |-> AuthEnsure0x(a.builder_account_id),
     max_futures_fee_rate |-> a.max_futures_fee_rate,
     max_spot_fee_rate |-> a.max_spot_fee_rate,
     signature |-> [signer |-> AuthEnsure0x(a.main_account_id),
                    r |-> sig.r, s |-> sig.s, v |-> sig.v,
                    expiration |-> StrOfInt(l.expiration_ns),
                    nonce |-> l.nonce,
                    chain_id |-> DigitsOf(chain_id)],
     builder_api_key_label |-> a.builder_api_key_label,
     builder_api_key_signer |-> AuthEnsure0x(l.signer_addr),
     builder_api_key_permissions |-> a.permissions]

\* authorize_builder, lines 232-254: the body that is posted
AuthorizePost ==
    /\ pc = "a_signed"
    /\ body' = AuthorizeBody(args, loc, signature, ENVS[env])
    /\ pc' = "a_posted"
    /\ UNCHANGED << script, now, env, private_key, orderVars, signable, signature, err,
                    args, loc, typed >>

\* the fee rate arguments of the model, futures and spot
FeeRates ==
    { << Lit(FALSE, <<0>>, <<0,0,1>>),   Lit(FALSE, <<0>>, <<0,0,0,1>>) >>,
      << Lit(FALSE, <<0>>, <<0,0,0,3>>), Lit(FALSE, <<0>>, <<0,0,0,1,9>>) >>,
      << Lit(FALSE, <<0>>, <<5,7>>),     Lit(FALSE, <<0>>, <<0,0,0,1,5>>) >>,
      << NotANumber,                     Lit(FALSE, <<0>>, <<0,0,0,1>>) >>,
      << Lit(FALSE, <<4,2,9,4,9,7>>, <<>>), Lit(FALSE, <<0>>, <<0,0,0,1>>) >>,
      << Lit(FALSE, <<0>>, <<0,0,1>>),   Lit(TRUE, <<0>>, <<0,0,1>>) >> }

\* --main-account-id: the user's address as a checksum address, the same address
\* unprefixed in lower case, and the address of another account
MainAccountIds == { HexStr("a1", TRUE, TRUE, FALSE), HexStr("a1", FALSE, FALSE, TRUE),
                    HexStr("a2", TRUE, TRUE, FALSE) }

\* --user-privkey
UserKeys == { HexStr("k1", TRUE, FALSE, FALSE), HexStr("k1", FALSE, TRUE, FALSE),
              HexStr("zz", TRUE, FALSE, FALSE) }

AuthInputs ==
    { [main_account_id |-> m,
       builder_account_id |-> HexStr("b1", TRUE, TRUE, FALSE),
       builder_api_key_signer_privkey |-> HexStr("k2", TRUE, FALSE, FALSE),
       builder_api_key_label |-> "builder-smoke-test",
       permissions |-> "Trade",
       max_futures_fee_rate |-> f[1],
       max_spot_fee_rate |-> f[2]] : m \in MainAccountIds, f \in FeeRates }

(***************************************************************************)
(* The two scripts.                                                        *)
(***************************************************************************)
InitOrder ==
    \E i \in OrderInputs :
        /\ script = "order"
        /\ pc = "loaded"
        /\ env = i.env
        /\ private_key = i.key
        /\ order_data = i.od
        /\ args = None

InitAuthorize ==
    \E a \in AuthInputs, k \in UserKeys, e \in EnvNames :
        /\ script = "authorize"
        /\ pc = "a_start"
        /\ env = e
        /\ private_key = k
        /\ order_data = None
        /\ args = a

Init ==
    /\ now = Clock
    /\ instruments = Instruments
    /\ key = None
    /\ legs = <<>>
    /\ message_data = None
    /\ signable = None
    /\ signature = None
    /\ result = None
    /\ err = "none"
    /\ loc = None
    /\ typed = None
    /\ body = None
    /\ (InitOrder \/ InitAuthorize)

Next ==
    \/ \E h \in ExpirationHours, n \in Nonces : UpdateOrderSignatureFields(h, n)
    \/ SignOrderBegin
    \/ ResolveLeg
    \/ BuildMessage
    \/ SignOrderSign
    \/ ReturnOrder
    \/ AuthorizePrepare
    \/ AuthorizeBuild
    \/ AuthorizeSign
    \/ AuthorizePost

Spec == Init /\ [][Next]_vars

(***************************************************************************)
(* Properties.                                                             *)
(***************************************************************************)
HasTyped == "primaryType" \in DOMAIN typed
HasMessage == "legs" \in DOMAIN message_data
OrderSigned == script = "order" /\ "types" \in DOMAIN signable
AuthSigned == script = "authorize" /\ "types" \in DOMAIN signable

Names(schema) == [i \in 1..Len(schema) |-> schema[i].name]
TypesOf(schema) == [i \in 1..Len(schema) |-> schema[i].type]

\* C1: whatever the arguments, the payload build_eip712_payload returns has primary
\* type AddAccountSignerWithBuilder, the eight-field schema in the documented order
\* and types, the EIP712Domain schema name, version, chainId, a domain of version "0"
\* with the chain id argument, and a message of exactly the eight keys, each bound
\* to its own argument.
C1_AuthorizationPayloadShape ==
    HasTyped =>
        /\ typed.primaryType = "AddAccountSignerWithBuilder"
        /\ Names(typed.types.AddAccountSignerWithBuilder) =
               << "accountID", "signer", "permissions", "builderAccountID",
                  "maxFutureFeeRate", "maxSpotFeeRate", "nonce", "expiration" >>
        /\ TypesOf(typed.types.AddAccountSignerWithBuilder) =
               << "address", "address", "string", "address",
                  "uint32", "uint32", "uint32", "int64" >>
        /\ Names(typed.types.EIP712Domain) = << "name", "version", "chainId" >>
        /\ TypesOf(typed.types.EIP712Domain) = << "string", "string", "uint256" >>
        /\ typed.domain.version = "0"
        /\ typed.domain.chainId = ENVS[env]
        /\ DOMAIN typed.message =
               { "accountID", "signer", "permissions", "builderAccountID",
                 "maxFutureFeeRate", "maxSpotFeeRate", "nonce", "expiration" }
        /\ typed.message.accountID = AuthEnsure0x(args.main_account_id)
        /\ typed.message.signer = AuthEnsure0x(loc.signer_addr)
        /\ typed.message.permissions = args.permissions
        /\ typed.message.builderAccountID = AuthEnsure0x(args.builder_account_id)
        /\ typed.message.maxFutureFeeRate = loc.mf_uint32
        /\ typed.message.maxSpotFeeRate = loc.ms_uint32
        /\ typed.message.nonce = loc.nonce
        /\ typed.message.expiration = loc.expiration_ns

\* a payload was built from two different fee rates and a nonzero nonce
C1_Witness ==
    /\ pc = "a_typed"
    /\ loc.mf_uint32 # loc.ms_uint32
    /\ loc.nonce # IntOf(0)
    /\ env = "prod"

OrderKeysOfMessage ==
    { "subAccountID", "isMarket", "timeInForce", "postOnly", "reduceOnly", "legs",
      "builder", "builderFee", "nonce", "expiration" }
LegKeysOfMessage == { "assetID", "contractSize", "limitPrice", "isBuyingContract" }

\* C2: for every accepted order the built message has exactly the ten order keys and
\* every leg exactly the four leg keys, and the payload that is signed has the
\* OrderWithBuilderFee schema and the OrderLeg schema in the documented field order,
\* legs being typed OrderLeg[].
C2_OrderPayloadShape ==
    /\ HasMessage =>
        /\ DOMAIN message_data = OrderKeysOfMessage
        /\ \A i \in 1..Len(message_data.legs) :
               DOMAIN message_data.legs[i] = LegKeysOfMessage
    /\ OrderSigned =>
        /\ signable.primary = "OrderWithBuilderFee"
        /\ Names(signable.types.OrderWithBuilderFee) =
               << "subAccountID", "isMarket", "timeInForce", "postOnly", "reduceOnly",
                  "legs", "builder", "builderFee", "nonce", "expiration" >>
        /\ signable.types.OrderWithBuilderFee[6].type = "OrderLeg[]"
        /\ Names(signable.types.OrderLeg) =
               << "assetID", "contractSize", "limitPrice", "isBuyingContract" >>
        /\ Len(signable.data) = 10
        /\ \A i \in 1..Len(signable.data[6]) : Len(signable.data[6][i]) = 4

\* a two-leg order was signed
C2_Witness ==
    /\ pc = "signed"
    /\ Len(message_data.legs) = 2
    /\ OrderSigned

\* whether r is an integer nearest to lit * 10^j
HalfCmp(frac) ==
    IF Head(frac) < 5 THEN -1
    ELSE IF Head(frac) > 5 \/ \E i \in 2..Len(frac) : frac[i] # 0 THEN 1
    ELSE 0

IsNearest(r, lit, j) ==
    LET dig == lit.ip \o lit.fp
        p   == Len(lit.fp)
    IN IF j >= p
       THEN r = PyInt(lit.neg, dig \o Zeros(j - p))
       ELSE LET whole == Strip(SubSeq(dig, 1, Len(dig) - (p - j)))
                frac  == SubSeq(dig, Len(dig) - (p - j) + 1, Len(dig))
            IN \/ r = PyInt(lit.neg, whole) /\ HalfCmp(frac) <= 0
               \/ r = PyInt(lit.neg, BigAdd(whole, <<1>>)) /\ HalfCmp(frac) >= 0

DefaultBuilderFee == Lit(FALSE, <<0>>, <<0,0,1>>)

\* C3: every scaled integer of a signed payload is an integer nearest to d * k:
\* leg size (k = 10^base_decimals), leg limit price (k = 10^9), order builder fee
\* (k = 10^4) and the two authorization fee rates (k = 10^4).
C3_ScaledIsNearest ==
    /\ OrderSigned =>
        LET o == OrderOf(order_data)
        IN /\ \A i \in 1..Len(message_data.legs) :
                /\ IsNearest(message_data.legs[i].contractSize, o.legs[i].size,
                             instruments[o.legs[i].instrument].base_decimals)
                /\ IsNearest(message_data.legs[i].limitPrice, o.legs[i].limit_price, 9)
           /\ IsNearest(message_data.builderFee, Get(o, "builder_fee", DefaultBuilderFee), 4)
    /\ AuthSigned =>
        /\ IsNearest(typed.message.maxFutureFeeRate, args.max_futures_fee_rate, 4)
        /\ IsNearest(typed.message.maxSpotFeeRate, args.max_spot_fee_rate, 4)

\* C4: the nonce and the expiration of the returned order's signature record are the
\* ones the caller supplied and the ones in the signed message; sign_order replaces
\* signer, r, s and v by the computed values and nothing else of the order.
C4_NonceExpirationPreserved ==
    pc = "returned" =>
        LET o  == OrderOf(order_data)
            ro == result.order
        IN /\ ro.signature.nonce = o.signature.nonce
           /\ ro.signature.expiration = o.signature.expiration
           /\ message_data.nonce = ro.signature.nonce
           /\ message_data.expiration = ro.signature.expiration
           /\ signable.data[9] = [neg |-> ro.signature.nonce.neg, dig |-> ro.signature.nonce.dig]
           /\ signable.data[10] = [neg |-> ro.signature.expiration.neg,
                                   dig |-> ro.signature.expiration.dig]
           /\ DOMAIN ro.signature = {"r", "s", "v", "expiration", "nonce", "signer"}
           /\ ro.signature.signer = AccountAddress(key)
           /\ ro.signature.r = Hex32(SignMessage(key, signable, ro.signature.v).r)
           /\ ro.signature.s = Hex32(SignMessage(key, signable, ro.signature.v).s)
           /\ ro.signature.v \in RecoveryIds
           /\ Without(ro, "signature") = Without(o, "signature")

\* an order whose nonce and expiration were refreshed before signing was returned
C4_Witness ==
    /\ pc = "returned"
    /\ result.order.signature.nonce = PyInt(FALSE, <<4,2,9,4,9,6,7,2,9,5>>)
    /\ result.order.signature.expiration = StrOfInt(ExpirationNs(now, 24 * 3600))

\* C5: each of the four time-in-force strings is signed as its own integer 1..4, and
\* no order whose time_in_force is not one of the four strings gets a message built.
C5_TimeInForceTotal ==
    HasMessage =>
        LET o == OrderOf(order_data)
        IN /\ "time_in_force" \in DOMAIN o
           /\ o.time_in_force \in
                  {"GOOD_TILL_TIME", "ALL_OR_NONE", "IMMEDIATE_OR_CANCEL", "FILL_OR_KILL"}
           /\ message_data.timeInForce =
                  IntOf(CASE o.time_in_force = "GOOD_TILL_TIME" -> 1
                          [] o.time_in_force = "ALL_OR_NONE" -> 2
                          [] o.time_in_force = "IMMEDIATE_OR_CANCEL" -> 3
                          [] o.time_in_force = "FILL_OR_KILL" -> 4)

UnknownLegAt(i) == OrderOf(order_data).legs[i].instrument \notin DOMAIN instruments
HasUnknownLeg == script = "order" /\ \E i \in 1..Len(OrderOf(order_data).legs) : UnknownLegAt(i)

\* C6: when a leg at any position names an instrument that is not in the directory,
\* the loop never gets past that leg, no message is built, nothing is signed, nothing
\* is returned, and the run can only end in an error.
C6_UnknownInstrumentFails ==
    HasUnknownLeg =>
        /\ \A i \in 1..Len(OrderOf(order_data).legs) : UnknownLegAt(i) => Len(legs) < i
        /\ ~HasMessage
        /\ ~OrderSigned
        /\ "signer" \notin DOMAIN signature
        /\ "order" \notin DOMAIN result
        /\ pc \in {"loaded", "updated", "legs", "failed"}
        /\ pc = "failed" => err # "none"

\* the second of two legs named an unknown instrument, after the first was resolved
C6_Witness ==
    /\ pc = "failed"
    /\ err = "UnknownInstrument"
    /\ Len(legs) = 1
    /\ UnknownLegAt(2)

\* the order file with its two legs in the other order
SwapLegs(od) ==
    LET l == OrderOf(od).legs
    IN IF "order" \in DOMAIN od THEN [od EXCEPT !.order.legs = << l[2], l[1] >>]
       ELSE [od EXCEPT !.legs = << l[2], l[1] >>]

OrderDigest(msg) ==
    EncodeTypedData(get_eip712_domain_data(env), EIP712_ORDER_MESSAGE_TYPE,
                    "OrderWithBuilderFee", msg)

\* the i-th leg of the message comes from the i-th leg of the order file
LegsInOrder ==
    LET o == OrderOf(order_data)
    IN /\ Len(message_data.legs) = Len(o.legs)
       /\ \A i \in 1..Len(o.legs) :
            /\ message_data.legs[i].assetID = instruments[o.legs[i].instrument].instrument_hash
            /\ message_data.legs[i].isBuyingContract = o.legs[i].is_buying_asset
            /\ message_data.legs[i] = BuildLeg(instruments, o.legs[i]).val

\* C7 as stated: the i-th message leg comes from the i-th order leg, and an order of
\* two distinct legs [A, B] and the order [B, A] get different messages and digests.
C7_DistinctLegsSwapDiffers ==
    HasMessage =>
        /\ LegsInOrder
        /\ LET o == OrderOf(order_data)
           IN Len(o.legs) = 2 /\ o.legs[1] # o.legs[2] =>
                LET swapped == build_order_message_data(SwapLegs(order_data), instruments)
                IN /\ swapped.err = "none"
                   /\ swapped.val # message_data
                   /\ OrderDigest(swapped.val) # OrderDigest(message_data)

\* C7 amended: the i-th message leg comes from the i-th order leg, and an order of two
\* legs whose message legs differ and the order with the two legs swapped get
\* different messages and digests.
C7_LegOrderPreserved ==
    HasMessage =>
        /\ LegsInOrder
        /\ Len(message_data.legs) = 2 /\ message_data.legs[1] # message_data.legs[2] =>
                LET swapped == build_order_message_data(SwapLegs(order_data), instruments)
                IN /\ swapped.err = "none"
                   /\ swapped.val # message_data
                   /\ swapped.val.legs = << message_data.legs[2], message_data.legs[1] >>
                   /\ OrderDigest(swapped.val) # OrderDigest(message_data)

\* an order of two legs on different instruments was signed
C7_Witness ==
    /\ pc = "signed"
    /\ Len(message_data.legs) = 2
    /\ message_data.legs[1].assetID # message_data.legs[2].assetID

\* C8: every leg's contractSize is the size scaled by 10^base_decimals of the leg's own
\* instrument, and every leg's limitPrice is the price scaled by 1,000,000,000
\* whatever the instrument.
C8_ScalingDomains ==
    script = "order" /\ pc # "failed" =>
        LET o == OrderOf(order_data)
        IN \A i \in 1..Len(legs) :
            /\ legs[i].contractSize =
                   ScaleDecimal(o.legs[i].size,
                                Pow10(instruments[o.legs[i].instrument].base_decimals))
            /\ legs[i].limitPrice =
                   ScaleDecimal(o.legs[i].limit_price, PyInt(FALSE, <<1,0,0,0,0,0,0,0,0,0>>))

\* a message has two legs on instruments of different base_decimals
C8_Witness ==
    /\ HasMessage
    /\ Len(message_data.legs) = 2
    /\ LET o == OrderOf(order_data)
       IN instruments[o.legs[1].instrument].base_decimals
              # instruments[o.legs[2].instrument].base_decimals

\* C9: the signer recovered from the signed digest and (r, s, v) is the signer declared
\* next to the signature: in sign_order's signature record, in the returned order and
\* in the authorization request body.
C9_RecoveredSignerIsDeclared ==
    /\ script = "order" /\ pc \in {"signed", "returned"} =>
           Recover(signable, signature.r.hex32, signature.s.hex32, signature.v)
               = signature.signer.body
    /\ pc = "returned" =>
           Recover(signable, result.order.signature.r.hex32,
                   result.order.signature.s.hex32, result.order.signature.v)
               = result.order.signature.signer.body
    /\ pc = "a_posted" =>
           Recover(signable, body.signature.r.hex32, body.signature.s.hex32,
                   body.signature.v)
               = body.signature.signer.body

\* the longest validity the exchange accepts, in days
MaxHorizonDays == 30

\* strictly after the clock reading and at most MaxHorizonDays ahead
InWindow(expiration) ==
    /\ ~expiration.neg
    /\ BigCmp(expiration.dig, NsDigits(now)) > 0
    /\ BigCmp(expiration.dig, NsDigits(now + MaxHorizonDays * Day)) <= 0

\* C10: every signature produced carries an expiration strictly in the future and at
\* most 30 days ahead: in authorize_builder, in orders refreshed by
\* update_order_signature_fields and in orders signed with the order file's expiration.
C10_ExpirationInWindow ==
    /\ OrderSigned => InWindow(message_data.expiration)
    /\ AuthSigned => InWindow(typed.message.expiration)

\* C11: the two registries give the same chain id for every environment name, the
\* domain of every signed payload carries the registry's chain id of the run's
\* environment, and the chain_id of the authorization request body is the decimal
\* string of the chainId that was signed.
C11_ChainIdMatchesDomain ==
    /\ \A e \in EnvNames : ENVS[e] = CHAIN_IDS[e]
    /\ DOMAIN ENVS = EnvNames /\ DOMAIN CHAIN_IDS = EnvNames
    /\ OrderSigned => signable.domain.chainId = CHAIN_IDS[env]
    /\ AuthSigned => /\ signable.domain.chainId = ENVS[env]
                     /\ typed.domain.chainId = ENVS[env]
    /\ pc = "a_posted" => body.signature.chain_id = DigitsOf(signable.domain.chainId)

\* an order was signed for the production environment
C11_Witness ==
    /\ OrderSigned
    /\ pc = "returned"
    /\ env = "prod"
    /\ signable.domain.chainId = 325

\* a Python int, not a str, that lies in [0, limit)
IsIntBelow(v, limit) ==
    /\ "py" \in DOMAIN v => v.py = "int"
    /\ ~v.neg
    /\ BigCmp(v.dig, limit) < 0

\* a Python int, not a str, in the int64 range
IsInt64(v) ==
    /\ "py" \in DOMAIN v => v.py = "int"
    /\ IF v.neg THEN BigCmp(v.dig, TwoPow63) <= 0 ELSE BigCmp(v.dig, TwoPow63) < 0

\* C12: every message that is encoded and signed has the keys of its schema, every
\* numeric field an integer within its declared width (subAccountID, contractSize,
\* limitPrice below 2^64, timeInForce below 2^8, builderFee, the fee rates and nonce
\* below 2^32, expiration an int in the int64 range) and builder an address.
C12_MessageFieldsTyped ==
    /\ OrderSigned =>
        /\ DOMAIN message_data = OrderKeysOfMessage
        /\ IsIntBelow(message_data.subAccountID, TwoPow64)
        /\ IsIntBelow(message_data.timeInForce, TwoPow8)
        /\ IsIntBelow(message_data.builderFee, TwoPow32)
        /\ IsIntBelow(message_data.nonce, TwoPow32)
        /\ IsInt64(message_data.expiration)
        /\ IsAddress(message_data.builder)
        /\ \A i \in 1..Len(message_data.legs) :
            /\ DOMAIN message_data.legs[i] = LegKeysOfMessage
            /\ IsIntBelow(message_data.legs[i].contractSize, TwoPow64)
            /\ IsIntBelow(message_data.legs[i].limitPrice, TwoPow64)
    /\ AuthSigned =>
        /\ IsIntBelow(typed.message.maxFutureFeeRate, TwoPow32)
        /\ IsIntBelow(typed.message.maxSpotFeeRate, TwoPow32)
        /\ IsIntBelow(typed.message.nonce, TwoPow32)
        /\ IsInt64(typed.message.expiration)
        /\ IsAddress(typed.message.accountID)
        /\ IsAddress(typed.message.signer)
        /\ IsAddress(typed.message.builderAccountID)

\* a value of an unsigned field of the given limit
FitsUint(v, limit) == ~v.neg /\ BigCmp(v.dig, limit) < 0

\* C13: no scaled value that exceeds the width of its field, or is negative, is ever
\* held by a leg, a message or a payload (scaling fails, so nothing is built from it),
\* nothing is signed from it, and the run that meets one ends in an Overflow error.
C13_OverflowFails ==
    /\ script = "order" =>
        /\ \A i \in 1..Len(legs) :
            /\ FitsUint(legs[i].contractSize, TwoPow64)
            /\ FitsUint(legs[i].limitPrice, TwoPow64)
        /\ HasMessage => FitsUint(message_data.builderFee, TwoPow32)
    /\ script = "authorize" =>
        /\ "mf_uint32" \in DOMAIN loc =>
            /\ FitsUint(loc.mf_uint32, TwoPow32)
            /\ FitsUint(loc.ms_uint32, TwoPow32)
        /\ HasTyped =>
            /\ FitsUint(typed.message.maxFutureFeeRate, TwoPow32)
            /\ FitsUint(typed.message.maxSpotFeeRate, TwoPow32)
    /\ err \notin {"EncodingError"}

\* the part of C13 that the encoder enforces: nothing out of range is signed
OutOfRangeNeverSigned ==
    /\ OrderSigned =>
        /\ \A i \in 1..Len(message_data.legs) :
            /\ FitsUint(message_data.legs[i].contractSize, TwoPow64)
            /\ FitsUint(message_data.legs[i].limitPrice, TwoPow64)
        /\ FitsUint(message_data.builderFee, TwoPow32)
    /\ AuthSigned =>
        /\ FitsUint(typed.message.maxFutureFeeRate, TwoPow32)
        /\ FitsUint(typed.message.maxSpotFeeRate, TwoPow32)

\* the stage of order assembly a position of sign_order belongs to
AssemblyStage ==
    CASE pc \in {"loaded", "updated"} -> "NotStarted"
      [] pc = "legs" /\ Len(legs) < Len(OrderOf(order_data).legs) -> "Unresolved"
      [] pc = "legs" -> "Scaled"
      [] pc = "built" -> "Built"
      [] pc = "signed" -> "Signed"
      [] pc = "returned" -> "Returned"
      [] OTHER -> "Aborted"

StageRank(s) ==
    CASE s = "NotStarted" -> 0 [] s = "Unresolved" -> 1 [] s = "Scaled" -> 2
      [] s = "Built" -> 3 [] s = "Signed" -> 4 [] s = "Returned" -> 5 [] OTHER -> 6

\* the stage after the step
AssemblyStageNext ==
    CASE pc' \in {"loaded", "updated"} -> "NotStarted"
      [] pc' = "legs" /\ Len(legs') < Len(OrderOf(order_data').legs) -> "Unresolved"
      [] pc' = "legs" -> "Scaled"
      [] pc' = "built" -> "Built"
      [] pc' = "signed" -> "Signed"
      [] pc' = "returned" -> "Returned"
      [] OTHER -> "Aborted"

\* one step of the order script keeps to the sequence
AssemblyStep ==
    /\ pc \notin {"failed", "returned"}
    /\ StageRank(AssemblyStageNext) >= StageRank(AssemblyStage)
    /\ AssemblyStageNext = AssemblyStage =>
           \/ AssemblyStage = "NotStarted"
           \/ AssemblyStage = "Unresolved" /\ Len(legs') = Len(legs) + 1
    /\ pc = "legs" /\ pc' = "legs" => SubSeq(legs', 1, Len(legs)) = legs
    /\ message_data' # message_data =>
           /\ AssemblyStage = "Scaled" /\ AssemblyStageNext = "Built"
           /\ message_data'.legs = legs
    /\ (signature' # signature \/ signable' # signable) =>
           /\ AssemblyStage = "Built" /\ AssemblyStageNext = "Signed"
           /\ Len(message_data.legs) = Len(OrderOf(order_data).legs)
           /\ signable'.data = EncodeStruct(EIP712_ORDER_MESSAGE_TYPE, "OrderWithBuilderFee", message_data)
    /\ result' # result =>
           /\ AssemblyStage = "Signed" /\ AssemblyStageNext = "Returned"
           /\ result'.order.signature.r = signature.r
           /\ result'.order.signature.s = signature.s
    /\ AssemblyStageNext = "Returned" => AssemblyStage = "Signed"
    /\ pc' = "failed" =>
           /\ err' \in {"UnknownInstrument", "InvalidDecimal", "UnknownTimeInForce",
                        "MissingField", "InvalidInteger", "EncodingError", "InvalidKey"}
           /\ UNCHANGED << legs, message_data, signable, signature, result >>

\* C14: order assembly only moves forward through Unresolved, Scaled, Built, Signed:
\* the message is built only when every leg is resolved and scaled, the signature is
\* computed only from the built message, no stage is entered again, a failure ends
\* the call at once and leaves nothing behind, and an order is returned only from
\* the Signed stage.
C14_AssemblyForwardOnly == [][script = "order" => AssemblyStep]_vars

\* a two-leg order went through every stage and was returned
C14_Witness ==
    /\ pc = "returned"
    /\ Len(legs) = 2
    /\ message_data.legs = legs
    /\ result.order.signature.r = signature.r

\* C15 as stated: no step of the order script changes the caller's order_data (its
\* signature record and legs included) or the instruments mapping.
C15_CallerDataUnchanged ==
    [][script = "order" => order_data' = order_data /\ instruments' = instruments]_vars

\* C16: the body posted by authorize_builder agrees with the payload that was signed:
\* nonce and expiration (as its decimal string) are the ones generated once, the
\* account ids and the API key signer address are the same normalized values, and
\* permissions is the same string.
C16_BodyAgreesWithSigned ==
    pc = "a_posted" =>
        /\ body.signature.nonce = typed.message.nonce
        /\ body.signature.nonce = loc.nonce
        /\ body.signature.expiration = StrOfInt(typed.message.expiration)
        /\ typed.message.expiration = loc.expiration_ns
        /\ body.main_account_id = typed.message.accountID
        /\ body.builder_account_id = typed.message.builderAccountID
        /\ body.builder_api_key_signer = typed.message.signer
        /\ body.builder_api_key_permissions = typed.message.permissions
        /\ body.main_account_id = AuthEnsure0x(args.main_account_id)
        /\ body.builder_account_id = AuthEnsure0x(args.builder_account_id)
        /\ signable.data = EncodeStruct(AuthTypes, "AddAccountSignerWithBuilder", typed.message)
        /\ signable.data[1] = body.main_account_id.body
        /\ signable.data[2] = body.builder_api_key_signer.body
        /\ signable.data[3] = body.builder_api_key_permissions
        /\ signable.data[4] = body.builder_account_id.body
        /\ signable.data[7] = body.signature.nonce
        /\ signable.data[8] = [neg |-> body.signature.expiration.neg,
                               dig |-> body.signature.expiration.dig]

\* a body was posted for an account id typed without prefix and with white space,
\* with a nonzero nonce
C16_Witness ==
    /\ pc = "a_posted"
    /\ args.main_account_id.ws
    /\ ~args.main_account_id.pre
    /\ body.signature.nonce # IntOf(0)

\* C17: in every returned order the signed builderFee is the scaled builder_fee of
\* the returned order, the signed timeInForce the bridged time_in_force of the
\* returned order, and the signed builder, isMarket, postOnly and reduceOnly are the
\* returned order's builder, is_market, post_only and reduce_only.
C17_SignedFromTransmitted ==
    pc = "returned" =>
        LET ro == result.order
        IN /\ {"builder_fee", "time_in_force", "builder", "is_market", "post_only",
               "reduce_only"} \subseteq DOMAIN ro
           /\ message_data.builderFee = ScaleDecimal(ro.builder_fee, IntOf(10000))
           /\ message_data.timeInForce =
                  IntOf(SignTimeInForce[TIME_IN_FORCE_TO_SIGN_TIME_IN_FORCE[ro.time_in_force]])
           /\ message_data.builder = ro.builder
           /\ message_data.isMarket = ro.is_market
           /\ message_data.postOnly = ro.post_only
           /\ message_data.reduceOnly = ro.reduce_only

====
